---- MODULE Spec2Model ----
(***************************************************************************)
(* Model of queries/code_base/utils.py of the CMEO repository: the text    *)
(* normalizer, the URI builders and the statistical-type classifier.       *)
(*                                                                         *)
(* A Python str is a sequence of characters, each character a one-element  *)
(* TLA+ string.  Python's None is the one-element sequence None below,     *)
(* whose element is no character, so that it is comparable with every str  *)
(* and equal to none of them.                                              *)
(*                                                                         *)
(* Every behaviour is one call: Init draws the function and its arguments, *)
(* the function's action computes the result (or the exception).           *)
(***************************************************************************)
EXTENDS Integers, Sequences, FiniteSets, TLC

VARIABLES pc, fn, text, study_id, cohort_id, var_id, var_name,
          multi_class_categorical, binary_categorical, data_type, g,
          ret, exc, stdout, input_str,
          store, requests, in_flight, calls, g_new, graph_uri, chunk_size, lines,
          loop_i,
          subject, predicate, obj,
          ontology_file, onto, files, exit_status, df

vars == <<pc, fn, text, study_id, cohort_id, var_id, var_name,
          multi_class_categorical, binary_categorical, data_type, g,
          ret, exc, stdout, input_str,
          store, requests, in_flight, calls, g_new, graph_uri, chunk_size, lines,
          loop_i,
          subject, predicate, obj,
          ontology_file, onto, files, exit_status, df>>

\* the state of a run of a documentation script
docs == <<ontology_file, onto, files, exit_status>>

(* ------------------------------ bounds -------------------------------- *)

\* longest argument of the one-argument functions
MaxLen == 2
\* longest identifier in the calls that take a cohort and a variable
MaxPairLen == 1

(* --------------------------- Python values ---------------------------- *)

None == <<"<None>">>

\* the characters the arguments are built from: a lower-case and an
\* upper-case letter, a blank, the characters normalize_text replaces or
\* removes, '%', the two unreserved marks '.' and '~', '-', and one
\* non-ASCII character (U+00E9, two bytes in UTF-8)
Alphabet == {"a", "A", " ", "/", ":", "[", "]", "%", ".", "~", "-", "U+00E9"}

Strings(n) == UNION {[1..k -> Alphabet] : k \in 0..n}

nan == <<"n", "a", "n">>

\* str(x) / f"{x}"
str(x) == IF x = None THEN <<"N", "o", "n", "e">> ELSE x

(* ------------------------- str methods, quote -------------------------- *)

\* the whitespace str.strip() removes; the blank is the one in Alphabet
Whitespace == {" "}

UpperCase == {"A", "B", "C", "D", "E", "F", "M", "N", "O"}
LowerCase == {"a", "b", "c", "d", "e", "f", "g", "h", "i", "l", "m", "n",
              "o", "p", "q", "r", "s", "t", "u", "v", "w", "y"}
Digits == {"0", "1", "2", "3", "4", "5", "6", "7", "8", "9"}

LowerChar(c) ==
    CASE c = "A" -> "a" [] c = "B" -> "b" [] c = "C" -> "c" [] c = "D" -> "d"
      [] c = "E" -> "e" [] c = "F" -> "f" [] c = "M" -> "m" [] c = "N" -> "n"
      [] c = "O" -> "o" [] OTHER -> c

\* str.lower()
lower(s) == [i \in 1..Len(s) |-> LowerChar(s[i])]

\* str.strip()
strip(s) ==
    LET keep == {i \in 1..Len(s) : s[i] \notin Whitespace}
        first == CHOOSE i \in keep : \A j \in keep : i <= j
        last == CHOOSE i \in keep : \A j \in keep : j <= i
    IN  IF keep = {} THEN <<>> ELSE SubSeq(s, first, last)

\* str.replace(old, new) for a one-character old
RECURSIVE replace(_, _, _)
replace(s, old, new) ==
    IF s = <<>> THEN <<>>
    ELSE (IF Head(s) = old THEN new ELSE <<Head(s)>>) \o replace(Tail(s), old, new)

\* urllib.parse.quote never quotes letters, digits and '_.-~'
ALWAYS_SAFE == UpperCase \cup LowerCase \cup Digits \cup {"_", ".", "-", "~"}

\* '%XX' for each byte of the character's UTF-8 encoding
PercentEncode(c) ==
    CASE c = " " -> <<"%", "2", "0">>
      [] c = "%" -> <<"%", "2", "5">>
      [] c = "/" -> <<"%", "2", "F">>
      [] c = ":" -> <<"%", "3", "A">>
      [] c = "[" -> <<"%", "5", "B">>
      [] c = "]" -> <<"%", "5", "D">>
      [] c = "U+00E9" -> <<"%", "C", "3", "%", "A", "9">>

\* quote with the escaping left out (variant used against C3)
quote_unescaped(s, safe) == s

\* urllib.parse.quote(s, safe=safe)
RECURSIVE quote(_, _)
quote(s, safe) ==
    IF s = <<>> THEN <<>>
    ELSE (IF Head(s) \in ALWAYS_SAFE \cup safe THEN <<Head(s)>>
          ELSE PercentEncode(Head(s))) \o quote(Tail(s), safe)

(* --------------------------- normalize_text ---------------------------- *)

normalize_text(t) ==
    IF t = None \/ t = nan \/ t = <<>> THEN None
    ELSE quote(replace(replace(replace(replace(replace(
                   strip(lower(str(t))),
                   " ", <<"_">>), "/", <<"_">>), ":", <<"_">>), "[", <<>>), "]", <<>>),
               {"_", "-"})

(* ----------------------------- URI builders ---------------------------- *)

\* OntologyNamespaces.CMEO.value
CMEO == <<"h", "t", "t", "p", "s", ":", "/", "/", "w", "3", "i", "d", ".",
          "o", "r", "g", "/", "C", "M", "E", "O", "/">>

\* a result is either a returned value or a raised exception
Returned(value) == [kind |-> "return", value |-> value, out |-> <<>>]
Raised(error) == [kind |-> "raise", value |-> error, out |-> <<>>]
Printed(msg, r) == [r EXCEPT !.out = <<msg>> \o @]

get_study_uri(sid) ==
    IF sid = None THEN Raised("TypeError")
    ELSE Returned(CMEO \o sid)

\* get_cohort_uri built from the raw identifier, as get_study_uri is
\* (variant used against C6)
get_cohort_uri_raw(cid) ==
    IF normalize_text(cid) = None THEN Raised("ValueError: Cohort ID is empty")
    ELSE Returned(CMEO \o cid)

get_cohort_uri(cid) ==
    LET safe_cohort_id == normalize_text(cid)
    IN  IF safe_cohort_id = None THEN Raised("ValueError: Cohort ID is empty")
        ELSE Returned(CMEO \o str(safe_cohort_id))

get_var_uri(cid, vid) ==
    LET safe_var_id == normalize_text(vid)
        safe_cohort_id == normalize_text(cid)
        uri == Returned(CMEO \o str(safe_cohort_id) \o <<"/">> \o str(safe_var_id))
    IN  IF safe_var_id = <<>> THEN Printed("Variable ID is empty", uri)
        ELSE uri

(* -------------------------- determine_var_uri -------------------------- *)

binary_class_variable ==
    <<"b", "i", "n", "a", "r", "y", "_", "c", "l", "a", "s", "s", "_",
      "v", "a", "r", "i", "a", "b", "l", "e">>
multi_class_variable ==
    <<"m", "u", "l", "t", "i", "_", "c", "l", "a", "s", "s", "_",
      "v", "a", "r", "i", "a", "b", "l", "e">>
qualitative_variable ==
    <<"q", "u", "a", "l", "i", "t", "a", "t", "i", "v", "e", "_",
      "v", "a", "r", "i", "a", "b", "l", "e">>
continuous_variable ==
    <<"c", "o", "n", "t", "i", "n", "u", "o", "u", "s", "_",
      "v", "a", "r", "i", "a", "b", "l", "e">>

dt_str == <<"s", "t", "r">>
dt_datetime == <<"d", "a", "t", "e", "t", "i", "m", "e">>
dt_int == <<"i", "n", "t">>

\* Python truth value of an optional str
Truthy(x) == x # None /\ x # <<>>

\* determine_var_uri whose multi-class branch returns the binary label with
\* the multi-class URI (variant used against C9)
determine_var_uri_mislabelled(graph, cid, vname, multi, binary, dtype) ==
    LET got == get_var_uri(cid, vname)
        var_uri == got.value
    IN  IF vname \in binary
        THEN [got EXCEPT !.value = <<var_uri \o <<"/">> \o binary_class_variable,
                                     binary_class_variable>>]
        ELSE IF vname \in multi
        THEN [got EXCEPT !.value = <<var_uri \o <<"/">> \o multi_class_variable,
                                     binary_class_variable>>]
        ELSE IF Truthy(dtype) /\ dtype \in {dt_str, dt_datetime}
        THEN [got EXCEPT !.value = <<var_uri \o <<"/">> \o qualitative_variable,
                                     qualitative_variable>>]
        ELSE [got EXCEPT !.value = <<var_uri \o <<"/">> \o continuous_variable,
                                     continuous_variable>>]

\* determine_var_uri that looks in the multi-class list first (variant used
\* against C10)
determine_var_uri_multi_first(graph, cid, vname, multi, binary, dtype) ==
    LET got == get_var_uri(cid, vname)
        var_uri == got.value
        typed(statistical_type) ==
            [got EXCEPT !.value = <<var_uri \o <<"/">> \o statistical_type,
                                    statistical_type>>]
    IN  IF vname \in multi THEN typed(multi_class_variable)
        ELSE IF vname \in binary THEN typed(binary_class_variable)
        ELSE IF Truthy(dtype) /\ dtype \in {dt_str, dt_datetime}
             THEN typed(qualitative_variable)
        ELSE typed(continuous_variable)

\* determine_var_uri that takes every non-empty data type for qualitative
\* (variant used against C11)
determine_var_uri_any_dtype(graph, cid, vname, multi, binary, dtype) ==
    LET got == get_var_uri(cid, vname)
        var_uri == got.value
        typed(statistical_type) ==
            [got EXCEPT !.value = <<var_uri \o <<"/">> \o statistical_type,
                                    statistical_type>>]
    IN  IF vname \in binary THEN typed(binary_class_variable)
        ELSE IF vname \in multi THEN typed(multi_class_variable)
        ELSE IF Truthy(dtype) THEN typed(qualitative_variable)
        ELSE typed(continuous_variable)

determine_var_uri(graph, cid, vname, multi, binary, dtype) ==
    LET got == get_var_uri(cid, vname)
        var_uri == got.value
        typed(statistical_type) ==
            [got EXCEPT !.value = <<var_uri \o <<"/">> \o statistical_type,
                                    statistical_type>>]
    IN  IF vname \in binary THEN typed(binary_class_variable)
        ELSE IF vname \in multi THEN typed(multi_class_variable)
        ELSE IF Truthy(dtype) /\ dtype \in {dt_str, dt_datetime}
             THEN typed(qualitative_variable)
        ELSE typed(continuous_variable)

(* ------------------------------ the calls ------------------------------ *)

\* identifiers of the calls that take a cohort and a variable
Ids == Strings(MaxPairLen) \cup {None, nan}

\* cohort identifiers given to determine_var_uri: absent, plain, and one
\* that normalization changes
SampleCohorts == {None, <<"a">>, <<"A", "/", "a">>}

\* names the caller's categorical lists are drawn from
CategoricalNames == {<<"a">>, <<"A">>}

DataTypes == {None, <<>>, dt_str, dt_datetime, dt_int}

\* the graph argument: empty, or holding a triple
Graphs == {{}, {<<"s", "p", "o">>}}

Texts == Strings(MaxLen) \cup {None, nan}

Frame(f) ==
    /\ pc = "call"
    /\ fn = f
    /\ ret = None
    /\ exc = ""
    /\ stdout = <<>>

NoArgs(names) ==
    /\ IF "text" \in names THEN TRUE ELSE text = None
    /\ IF "study_id" \in names THEN TRUE ELSE study_id = None
    /\ IF "cohort_id" \in names THEN TRUE ELSE cohort_id = None
    /\ IF "var_id" \in names THEN TRUE ELSE var_id = None
    /\ IF "var_name" \in names THEN TRUE ELSE var_name = None
    /\ IF "lists" \in names THEN TRUE ELSE (multi_class_categorical = {} /\ binary_categorical = {})
    /\ IF "data_type" \in names THEN TRUE ELSE data_type = None
    /\ IF "g" \in names THEN TRUE ELSE g = {}
    /\ IF "input_str" \in names THEN TRUE ELSE input_str = None
    /\ IF "obj" \in names THEN TRUE ELSE obj = None
    /\ IF "df" \in names THEN TRUE ELSE df = <<>>
    /\ IF "docs" \in names THEN TRUE
       ELSE /\ ontology_file = None /\ onto = None
            /\ files = <<>> /\ exit_status = {}
    /\ IF "store" \in names THEN TRUE
       ELSE /\ store = <<>> /\ requests = <<>> /\ calls = <<>>
            /\ in_flight = <<>>
            /\ g_new = {} /\ graph_uri = "" /\ chunk_size = 0
            /\ lines = <<>> /\ loop_i = 0
            /\ subject = "" /\ predicate = ""

Init ==
    \/ /\ Frame("normalize_text")
       /\ text \in Texts
       /\ NoArgs({"text"})
    \/ /\ Frame("get_study_uri")
       /\ study_id \in Texts
       /\ NoArgs({"study_id"})
    \/ /\ Frame("get_cohort_uri")
       /\ cohort_id \in Texts
       /\ NoArgs({"cohort_id"})
    \/ /\ Frame("get_var_uri")
       /\ cohort_id \in Ids
       /\ var_id \in Ids
       /\ NoArgs({"cohort_id", "var_id"})
    \/ /\ Frame("determine_var_uri")
       /\ g \in Graphs
       /\ cohort_id \in SampleCohorts
       /\ var_name \in Ids
       /\ multi_class_categorical \in SUBSET CategoricalNames
       /\ binary_categorical \in SUBSET CategoricalNames
       /\ data_type \in DataTypes
       /\ NoArgs({"g", "cohort_id", "var_name", "lists", "data_type"})

\* the call ends: the value is returned or the exception propagates, and
\* what was printed is on stdout; arguments are left as they were
Finish(r) ==
    /\ pc' = IF r.kind = "return" THEN "returned" ELSE "raised"
    /\ ret' = IF r.kind = "return" THEN r.value ELSE None
    /\ exc' = IF r.kind = "raise" THEN r.value ELSE ""
    /\ stdout' = stdout \o r.out
    /\ UNCHANGED <<fn, text, study_id, cohort_id, var_id, var_name,
                   multi_class_categorical, binary_categorical, data_type, g,
                   input_str, store, requests, in_flight, calls, g_new, graph_uri,
                   chunk_size, lines, loop_i, subject, predicate, obj, df, docs>>

call_normalize_text ==
    /\ pc = "call" /\ fn = "normalize_text"
    /\ Finish(Returned(normalize_text(text)))

call_get_study_uri ==
    /\ pc = "call" /\ fn = "get_study_uri"
    /\ Finish(get_study_uri(study_id))

call_get_cohort_uri ==
    /\ pc = "call" /\ fn = "get_cohort_uri"
    /\ Finish(get_cohort_uri(cohort_id))

call_get_var_uri ==
    /\ pc = "call" /\ fn = "get_var_uri"
    /\ Finish(get_var_uri(cohort_id, var_id))

call_determine_var_uri ==
    /\ pc = "call" /\ fn = "determine_var_uri"
    /\ Finish(determine_var_uri(g, cohort_id, var_name, multi_class_categorical,
                                binary_categorical, data_type))

Next ==
    \/ call_normalize_text
    \/ call_get_study_uri
    \/ call_get_cohort_uri
    \/ call_get_var_uri
    \/ call_determine_var_uri

Spec == Init /\ [][Next]_vars

(* ------------------------------ properties ----------------------------- *)

Called(f) == fn = f /\ pc # "call"
Gave(f) == fn = f /\ pc = "returned"

\* the inputs normalize_text answers with None before it looks further
Absent == {None, nan, <<>>}

\* s is made only of characters of allowed and of %XX escapes
HexDigits == Digits \cup {"A", "B", "C", "D", "E", "F"}
RECURSIVE OnlyAllowedAndEscapes(_, _)
OnlyAllowedAndEscapes(s, allowed) ==
    IF s = <<>> THEN TRUE
    ELSE IF Head(s) = "%"
         THEN /\ Len(s) >= 3
              /\ s[2] \in HexDigits
              /\ s[3] \in HexDigits
              /\ OnlyAllowedAndEscapes(SubSeq(s, 4, Len(s)), allowed)
    ELSE Head(s) \in allowed /\ OnlyAllowedAndEscapes(Tail(s), allowed)

\* [A-Za-z0-9_-]
AllowList == UpperCase \cup LowerCase \cup Digits \cup {"_", "-"}

\* C1: normalize_text is idempotent: for every non-empty string that is not
\* "nan", normalizing the result of normalize_text gives that result again.
C1_Idempotent ==
    (Gave("normalize_text") /\ text \notin Absent) => normalize_text(ret) = ret

\* C2: normalize_text raises nothing, returns None for null, "nan", the empty
\* string and a string that is empty after trimming, and a non-empty token
\* for every other input; it never returns the empty string.
C2_NoneOrToken ==
    Called("normalize_text") =>
        /\ pc = "returned"
        /\ IF text \in Absent \/ strip(text) = <<>>
           THEN ret = None
           ELSE ret # None /\ ret # <<>>

\* C3 as stated: a token returned by normalize_text consists only of
\* characters in [A-Za-z0-9_-] and %XX escapes.
C3_OnlyAllowListAndEscapes ==
    (Gave("normalize_text") /\ ret # None) => OnlyAllowedAndEscapes(ret, AllowList)

\* C3 as amended: a token returned by normalize_text consists only of
\* characters in [A-Za-z0-9_.~-] and %XX escapes ('.' and '~' stay as they
\* are).
C3_OnlyUnreservedAndEscapes ==
    (Gave("normalize_text") /\ ret # None) =>
        OnlyAllowedAndEscapes(ret, AllowList \cup {".", "~"})

\* normalize_text returned a token for a text with '.' and a non-ASCII
\* character: the first kept, the second escaped
C3_Witness ==
    /\ Gave("normalize_text")
    /\ text = <<".", "U+00E9">>
    /\ ret = <<".", "%", "C", "3", "%", "A", "9">>

\* C4: get_cohort_uri raises ValueError for every cohort identifier that is
\* null, "", "nan" or empty after trimming, and never returns the bare
\* namespace.
C4_EmptyCohortRaises ==
    Called("get_cohort_uri") =>
        /\ (cohort_id \in Absent \/ strip(cohort_id) = <<>>) =>
               (pc = "raised" /\ exc = "ValueError: Cohort ID is empty")
        /\ pc = "returned" => ret # CMEO

\* C5: get_var_uri with an empty variable identifier ("", null or "nan")
\* prints 'Variable ID is empty' and still returns a URI.
C5_EmptyVarWarns ==
    (Called("get_var_uri") /\ var_id \in Absent) =>
        /\ pc = "returned"
        /\ \E i \in 1..Len(stdout) : stdout[i] = "Variable ID is empty"

\* C6: whenever get_cohort_uri returns, the result is the CMEO namespace
\* followed by normalize_text of the cohort identifier, and nothing else.
C6_CohortUri ==
    Gave("get_cohort_uri") =>
        /\ normalize_text(cohort_id) # None
        /\ ret = CMEO \o normalize_text(cohort_id)

\* get_cohort_uri returned for an identifier that normalization changes
C6_Witness ==
    /\ Gave("get_cohort_uri")
    /\ cohort_id = <<"A", "/">>
    /\ ret = CMEO \o <<"a", "_">>

\* C7: for every cohort and variable identifier, get_var_uri returns the
\* namespace, the normalized cohort identifier, one '/', and the normalized
\* variable identifier.
C7_VarUri ==
    Called("get_var_uri") =>
        /\ pc = "returned"
        /\ normalize_text(cohort_id) # None
        /\ normalize_text(var_id) # None
        /\ ret = CMEO \o normalize_text(cohort_id) \o <<"/">> \o normalize_text(var_id)

\* C27: get_var_uri returns a URI only for a cohort identifier for which
\* get_cohort_uri returns one, and the URI starts with that of the cohort
\* and '/'; where get_cohort_uri raises, get_var_uri raises too and builds
\* no URI with the segment "None".
C27_VarUriFollowsCohortUri ==
    Called("get_var_uri") =>
        LET c == get_cohort_uri(cohort_id)
            stem == CMEO \o <<"N", "o", "n", "e", "/">>
        IN  /\ pc = "returned" =>
                  /\ c.kind = "return"
                  /\ Len(ret) > Len(c.value)
                  /\ SubSeq(ret, 1, Len(c.value) + 1) = c.value \o <<"/">>
            /\ c.kind = "raise" => pc = "raised"
            /\ pc = "returned" =>
                  ~(Len(ret) >= Len(stem) /\ SubSeq(ret, 1, Len(stem)) = stem)

\* C8: for every study identifier, get_study_uri returns the namespace
\* followed by the normalized identifier.
C8_StudyUri ==
    (Called("get_study_uri") /\ normalize_text(study_id) # None) =>
        /\ pc = "returned"
        /\ ret = CMEO \o normalize_text(study_id)

StatisticalTypes ==
    {binary_class_variable, multi_class_variable, qualitative_variable,
     continuous_variable}

\* C9: determine_var_uri always returns a pair (uri, type) with type one of
\* the four statistical types and uri the variable URI followed by '/' and
\* that type, the same pair whatever graph is passed.
C9_TypedUri ==
    Called("determine_var_uri") =>
        /\ pc = "returned"
        /\ Len(ret) = 2
        /\ ret[2] \in StatisticalTypes
        /\ ret[1] = get_var_uri(cohort_id, var_name).value \o <<"/">> \o ret[2]
        /\ \A other \in Graphs :
               determine_var_uri(other, cohort_id, var_name, multi_class_categorical,
                                 binary_categorical, data_type).value = ret

\* determine_var_uri returned the multi-class pair for a non-empty graph
C9_Witness ==
    /\ Gave("determine_var_uri")
    /\ g # {}
    /\ cohort_id = <<"A", "/", "a">>
    /\ var_name = <<"A">>
    /\ var_name \in multi_class_categorical
    /\ var_name \notin binary_categorical
    /\ ret = <<CMEO \o <<"a", "_", "a", "/", "a", "/">> \o multi_class_variable,
               multi_class_variable>>

\* C10: a variable name in the binary list is classified
\* binary_class_variable, whatever the data type and whether or not the name
\* is in the multi-class list too.
C10_BinaryWins ==
    (Called("determine_var_uri") /\ var_name \in binary_categorical) =>
        /\ pc = "returned"
        /\ ret[2] = binary_class_variable

\* a name in both lists, with data type "str", came out binary
C10_Witness ==
    /\ Gave("determine_var_uri")
    /\ var_name \in binary_categorical
    /\ var_name \in multi_class_categorical
    /\ data_type = dt_str
    /\ ret[2] = binary_class_variable

\* C11: a variable name in neither list is classified qualitative_variable
\* when the data type is "str" or "datetime" and continuous_variable for
\* every other data type, None and the empty string included.
C11_DataTypeFallback ==
    (/\ Called("determine_var_uri")
     /\ var_name \notin binary_categorical
     /\ var_name \notin multi_class_categorical) =>
        /\ pc = "returned"
        /\ ret[2] = IF data_type \in {dt_str, dt_datetime}
                    THEN qualitative_variable
                    ELSE continuous_variable

\* a name in neither list with data type "int" came out continuous
C11_Witness ==
    /\ Gave("determine_var_uri")
    /\ var_name = <<"a">>
    /\ binary_categorical = {<<"A">>}
    /\ multi_class_categorical = {}
    /\ data_type = dt_int
    /\ ret[2] = continuous_variable

(* -------------------------- extract_age_range -------------------------- *)
(* The text is a sequence of lexemes: the runs of characters the two       *)
(* regular expressions tell apart (a comparison symbol, a number \d+, one  *)
(* of the words they name, any other word), whitespace in between.  A      *)
(* lexeme is a record, k its kind and v the value of a number.  An         *)
(* optional float (min_age, max_age) is a set of at most one number, {}    *)
(* being None.                                                             *)

\* most phrases in a text
MaxPhrases == 3

Tok(k) == [k |-> k, v |-> 0]
Num(n) == [k |-> "num", v |-> n]

Operators == {">=", "<=", ">", "<"}
Ages == {18, 65}

\* the phrases texts are made of: each symbol, ASCII and Unicode, before
\* each number; conditions with 'age' before and 'years' / 'years old'
\* after; between-phrases with 'and' and '-', 'years' and 'year', and one
\* without its unit; and words and a symbol that are no condition
Phrases ==
    {<<Tok(op), Num(n)>> : op \in Operators \cup {"U+2265", "U+2264"}, n \in Ages}
    \cup {<<Tok("age"), Tok(">="), Num(18)>>,
          <<Tok("age"), Tok("<="), Num(65), Tok("years")>>,
          <<Tok(">"), Num(65), Tok("years"), Tok("old")>>}
    \cup {<<Tok("between"), Num(18), Tok("and"), Num(65), Tok("years")>>,
          <<Tok("between"), Num(65), Tok("-"), Num(18), Tok("year")>>,
          <<Tok("between"), Num(18), Tok("and"), Num(65)>>}
    \cup {<<Tok("and")>>, <<Tok("word"), Tok("word")>>, <<Tok("<")>>}

RECURSIVE Flatten(_)
Flatten(ps) == IF ps = <<>> THEN <<>> ELSE Head(ps) \o Flatten(Tail(ps))

AgeTexts == {Flatten(ps) : ps \in UNION {[1..k -> Phrases] : k \in 0..MaxPhrases}}

\* the text left as it is, the Unicode symbols not replaced (variant used
\* against C12)
replace_symbols_none(t) == t

\* text.replace("U+2265", ">=").replace("U+2264", "<=")
replace_symbols(t) ==
    [i \in 1..Len(t) |->
        IF t[i].k = "U+2265" THEN Tok(">=")
        ELSE IF t[i].k = "U+2264" THEN Tok("<=")
        ELSE t[i]]

KindAt(t, i) == IF i <= Len(t) THEN t[i].k ELSE "end"

\* the match of the condition pattern at the head of t:
\* (?:age\s*)?(>=|<=|>|<)\s*(\d+(?:\.\d+)?)\s*(?:years\s*old|years)?
\* len is the number of lexemes matched, 0 when there is no match
match_condition(t) ==
    LET p == IF KindAt(t, 1) = "age" THEN 2 ELSE 1
        unit == IF KindAt(t, p + 2) = "years"
                THEN (IF KindAt(t, p + 3) = "old" THEN 2 ELSE 1)
                ELSE 0
    IN  IF KindAt(t, p) \in Operators /\ KindAt(t, p + 1) = "num"
        THEN [len |-> p + 1 + unit, operator |-> t[p].k, value |-> t[p + 1].v]
        ELSE [len |-> 0, operator |-> "", value |-> 0]

\* re.findall(condition pattern, text): the matches left to right, none
\* overlapping
RECURSIVE findall_conditions(_)
findall_conditions(t) ==
    IF t = <<>> THEN <<>>
    ELSE LET m == match_condition(t)
         IN  IF m.len > 0
             THEN <<m>> \o findall_conditions(SubSeq(t, m.len + 1, Len(t)))
             ELSE findall_conditions(Tail(t))

\* the between pattern with its two groups taken in the wrong order (variant
\* used against C13)
RECURSIVE search_between_swapped(_)
search_between_swapped(t) ==
    IF t = <<>> THEN <<>>
    ELSE IF /\ KindAt(t, 1) = "between"
            /\ KindAt(t, 2) = "num"
            /\ KindAt(t, 3) \in {"and", "-", "U+2013"}
            /\ KindAt(t, 4) = "num"
            /\ KindAt(t, 5) \in {"years", "year"}
         THEN <<t[4].v, t[2].v>>
    ELSE search_between_swapped(Tail(t))

\* re.search(between pattern, text): the groups of the first match, or <<>>
\* between\s+(\d+(?:\.\d+)?)\s*(?:and|[-U+2013])\s*(\d+(?:\.\d+)?)\s*years?
RECURSIVE search_between(_)
search_between(t) ==
    IF t = <<>> THEN <<>>
    ELSE IF /\ KindAt(t, 1) = "between"
            /\ KindAt(t, 2) = "num"
            /\ KindAt(t, 3) \in {"and", "-", "U+2013"}
            /\ KindAt(t, 4) = "num"
            /\ KindAt(t, 5) \in {"years", "year"}
         THEN <<t[2].v, t[4].v>>
    ELSE search_between(Tail(t))

\* the loop keeping the last bound of each direction, not the tightest
RECURSIVE fold_conditions_last(_, _, _)
fold_conditions_last(conds, min_age, max_age) ==
    IF conds = <<>> THEN <<min_age, max_age>>
    ELSE IF Head(conds).operator \in {">=", ">"}
         THEN fold_conditions_last(Tail(conds), {Head(conds).value}, max_age)
         ELSE fold_conditions_last(Tail(conds), min_age, {Head(conds).value})

\* the loop of lines 116-123 over the conditions found
RECURSIVE fold_conditions(_, _, _)
fold_conditions(conds, min_age, max_age) ==
    IF conds = <<>> THEN <<min_age, max_age>>
    ELSE LET operator == Head(conds).operator
             value == Head(conds).value
         IN  IF operator \in {">=", ">"}
             THEN fold_conditions(Tail(conds),
                      IF min_age = {} \/ (\A m \in min_age : value > m)
                      THEN {value} ELSE min_age,
                      max_age)
             ELSE fold_conditions(Tail(conds),
                      min_age,
                      IF max_age = {} \/ (\A m \in max_age : value < m)
                      THEN {value} ELSE max_age)

\* extract_age_range without the test of line 135: the pair is returned
\* whatever it holds (variant used against C14)
extract_age_range_always_pair(txt) ==
    LET t == replace_symbols(txt)
        folded == fold_conditions(findall_conditions(t), {}, {})
        match == search_between(t)
        min_age == IF match # <<>> /\ (folded[1] = {} \/ \A m \in folded[1] : match[1] > m)
                   THEN {match[1]} ELSE folded[1]
        max_age == IF match # <<>> /\ (folded[2] = {} \/ \A m \in folded[2] : match[2] < m)
                   THEN {match[2]} ELSE folded[2]
    IN  Returned(<<min_age, max_age>>)

extract_age_range(txt) ==
    LET t == replace_symbols(txt)
        age_conditions == findall_conditions(t)
        folded == fold_conditions(age_conditions, {}, {})
        match == search_between(t)
        min_age == IF match # <<>> /\ (folded[1] = {} \/ \A m \in folded[1] : match[1] > m)
                   THEN {match[1]} ELSE folded[1]
        max_age == IF match # <<>> /\ (folded[2] = {} \/ \A m \in folded[2] : match[2] < m)
                   THEN {match[2]} ELSE folded[2]
    IN  IF min_age # {} \/ max_age # {} THEN Returned(<<min_age, max_age>>)
        ELSE Returned(None)

InitAge ==
    /\ Frame("extract_age_range")
    /\ text \in AgeTexts
    /\ NoArgs({"text"})

call_extract_age_range ==
    /\ pc = "call" /\ fn = "extract_age_range"
    /\ Finish(extract_age_range(text))

NextAge ==
    \/ call_extract_age_range

SpecAge == InitAge /\ [][NextAge]_vars

(* --------------------- properties of extract_age_range ----------------- *)

\* where the text holds a lower-bound condition, an upper-bound condition,
\* a between-phrase: read off the text, symbol by symbol
LowerSymbols == {">=", ">", "U+2265"}
UpperSymbols == {"<=", "<", "U+2264"}
LowerAt == {i \in 1..Len(text) : text[i].k \in LowerSymbols /\ KindAt(text, i + 1) = "num"}
UpperAt == {i \in 1..Len(text) : text[i].k \in UpperSymbols /\ KindAt(text, i + 1) = "num"}
BetweenAt ==
    {i \in 1..Len(text) :
        /\ text[i].k = "between"
        /\ KindAt(text, i + 1) = "num"
        /\ KindAt(text, i + 2) \in {"and", "-"}
        /\ KindAt(text, i + 3) = "num"
        /\ KindAt(text, i + 4) \in {"years", "year"}}
First(S) == CHOOSE i \in S : \A j \in S : i <= j

C13_Between ==
    (/\ Called("extract_age_range")
     /\ BetweenAt # {}
     /\ LowerAt = {}
     /\ UpperAt = {}) =>
        /\ pc = "returned"
        /\ ret = <<{text[First(BetweenAt) + 1].v}, {text[First(BetweenAt) + 3].v}>>

\* "between 18 and 65 years" gave (18.0, 65.0)
C13_Witness ==
    /\ Gave("extract_age_range")
    /\ text = <<Tok("between"), Num(18), Tok("and"), Num(65), Tok("years")>>
    /\ ret = <<{18}, {65}>>

\* C14: extract_age_range returns None exactly when the text holds neither
\* an inequality condition nor a between-phrase, and a pair it returns
\* never is (None, None).
C14_NoneIffNothing ==
    Called("extract_age_range") =>
        /\ pc = "returned"
        /\ (ret = None) <=> (LowerAt = {} /\ UpperAt = {} /\ BetweenAt = {})
        /\ ret # None => (ret[1] # {} \/ ret[2] # {})

\* a text of words, a symbol without a number and a between-phrase without
\* its unit gave None
C14_Witness ==
    /\ Gave("extract_age_range")
    /\ text = <<Tok("word"), Tok("word"), Tok("<"),
                Tok("between"), Num(18), Tok("and"), Num(65)>>
    /\ ret = None

\* the lower and the upper bounds the text holds: the numbers of its
\* inequality conditions and those of its first between-phrase
LowerBounds ==
    {text[i + 1].v : i \in LowerAt}
        \cup (IF BetweenAt = {} THEN {} ELSE {text[First(BetweenAt) + 1].v})
UpperBounds ==
    {text[i + 1].v : i \in UpperAt}
        \cup (IF BetweenAt = {} THEN {} ELSE {text[First(BetweenAt) + 3].v})
Highest(S) == {x \in S : \A y \in S : y <= x}
Lowest(S) == {x \in S : \A y \in S : x <= y}

\* C24: extract_age_range returns as min_age the highest of the lower
\* bounds of the text and as max_age the lowest of its upper bounds,
\* wherever in the text they stand; a side without bound is None.
C24_TightestBounds ==
    (Called("extract_age_range") /\ LowerBounds \cup UpperBounds # {}) =>
        /\ pc = "returned"
        /\ ret = <<Highest(LowerBounds), Lowest(UpperBounds)>>

\* ">= 65 > 18 between 18 and 65 years" gave (65.0, 65.0)
C24_Witness ==
    /\ Gave("extract_age_range")
    /\ text = <<Tok(">="), Num(65), Tok(">"), Num(18),
                Tok("between"), Num(18), Tok("and"), Num(65), Tok("years")>>
    /\ ret = <<{65}, {65}>>

\* C28: a pair extract_age_range returns with both bounds has its min_age
\* at or below its max_age.
C28_MinAtMostMax ==
    (Gave("extract_age_range") /\ ret # None) =>
        \A lo \in ret[1] : \A hi \in ret[2] : lo <= hi

(* ------------------------- parse_joined_string ------------------------- *)

\* most pieces in an input of parse_joined_string
MaxPieces == 5

\* the double quote
DQ == "U+0022"

\* a value that is no str (a float, as pandas gives for a missing cell)
NotAStr == <<"<float>">>

\* the characters of the inputs of parse_joined_string
JoinChars == {"a", "1", "=", "|", DQ, " "}

\* the pieces the inputs are made of: a key, a key with blanks around '=',
\* a letter, a quoted value with a pipe in it, a pipe, a blank, a quote
Pieces ==
    {<<"1", "=">>, <<"1", " ", "=", " ">>, <<"a">>, <<DQ, "a", "|", "a", DQ>>,
     <<"|">>, <<" ">>, <<DQ>>}

JoinedStrings ==
    {Flatten(ps) : ps \in UNION {[1..k -> Pieces] : k \in 0..MaxPieces}}
    \cup {None, NotAStr}

\* the number of characters of s from index i on that are in chars, up to
\* the first that is not
RECURSIVE Run(_, _, _)
Run(s, i, chars) ==
    IF i > Len(s) \/ s[i] \notin chars THEN 0 ELSE 1 + Run(s, i + 1, chars)

\* the first index from i on where s holds c, 0 if there is none
RECURSIVE IndexOf(_, _, _)
IndexOf(s, i, c) ==
    IF i > Len(s) THEN 0 ELSE IF s[i] = c THEN i ELSE IndexOf(s, i + 1, c)

\* str.strip(chars)
strip_chars(s, chars) ==
    LET keep == {i \in 1..Len(s) : s[i] \notin chars}
        first == CHOOSE i \in keep : \A j \in keep : i <= j
        last == CHOOSE i \in keep : \A j \in keep : j <= i
    IN  IF keep = {} THEN <<>> ELSE SubSeq(s, first, last)

\* the length of the match of \d+\s*=\s* at index i of s, 0 if none
key_length(s, i) ==
    LET d == Run(s, i, Digits)
        w == Run(s, i + d, Whitespace)
        eq == i + d + w
    IN  IF d >= 1 /\ eq <= Len(s) /\ s[eq] = "="
        THEN d + w + 1 + Run(s, eq + 1, Whitespace)
        ELSE 0

\* re.search(r'\d+\s*=', s)
has_key(s) == \E i \in 1..Len(s) : key_length(s, i) > 0

\* the end of the match of \d+\s*=\s*"[^"]*"|\d+\s*=\s*[^|]+ at index i of
\* s, 0 if none: the quoted alternative first; in the other \s* gives back
\* its blanks to [^|]+, which needs a character
match_key_value(s, i) ==
    LET k == key_length(s, i)
        q == i + k
        eq == i + Run(s, i, Digits) + Run(s, i + Run(s, i, Digits), Whitespace)
        close == IF q <= Len(s) /\ s[q] = DQ THEN IndexOf(s, q + 1, DQ) ELSE 0
        rest == Run(s, eq + 1, JoinChars \ {"|"})
    IN  IF k = 0 THEN 0
        ELSE IF close > 0 THEN close
        ELSE IF rest >= 1 THEN eq + rest
        ELSE 0

\* the plain pattern without its quoted alternative: every pipe separates
\* (variant used against C15)
match_plain_unquoted(s, i) ==
    LET rest == Run(s, i, JoinChars \ {"|"})
    IN  IF rest >= 1 THEN i + rest - 1 ELSE 0

\* the end of the match of "[^"]*"|[^|"]+ at index i of s, 0 if none
match_plain(s, i) ==
    LET close == IF s[i] = DQ THEN IndexOf(s, i + 1, DQ) ELSE 0
        rest == Run(s, i, JoinChars \ {"|", DQ})
    IN  IF close > 0 THEN close
        ELSE IF rest >= 1 THEN i + rest - 1
        ELSE 0

\* re.findall of the two patterns, from index i on
RECURSIVE findall_key_value(_, _)
findall_key_value(s, i) ==
    IF i > Len(s) THEN <<>>
    ELSE LET e == match_key_value(s, i)
         IN  IF e > 0 THEN <<SubSeq(s, i, e)>> \o findall_key_value(s, e + 1)
             ELSE findall_key_value(s, i + 1)

RECURSIVE findall_plain(_, _)
findall_plain(s, i) ==
    IF i > Len(s) THEN <<>>
    ELSE LET e == match_plain(s, i)
         IN  IF e > 0 THEN <<SubSeq(s, i, e)>> \o findall_plain(s, e + 1)
             ELSE findall_plain(s, i + 1)

\* re.sub(r'^\d+\s*=\s*', '', match)
remove_key(m) == SubSeq(m, key_length(m, 1) + 1, Len(m))

NotBlank(m) == strip(m) # <<>>

parse_joined_string(s) ==
    IF s = None \/ s = <<>> \/ s = NotAStr THEN Returned(<<>>)
    ELSE IF has_key(s)
    THEN LET matches == SelectSeq(findall_key_value(s, 1), NotBlank)
         IN  Returned([n \in 1..Len(matches) |->
                          strip_chars(strip(remove_key(matches[n])), {DQ})])
    ELSE LET matches == SelectSeq(findall_plain(s, 1), NotBlank)
         IN  Returned([n \in 1..Len(matches) |->
                          strip_chars(strip(matches[n]), {DQ})])

InitParse ==
    /\ Frame("parse_joined_string")
    /\ input_str \in JoinedStrings
    /\ NoArgs({"input_str"})

call_parse_joined_string ==
    /\ pc = "call" /\ fn = "parse_joined_string"
    /\ Finish(parse_joined_string(input_str))

NextParse ==
    \/ call_parse_joined_string

SpecParse == InitParse /\ [][NextParse]_vars

(* -------------------- properties of parse_joined_string ---------------- *)

\* the items of s: s cut at the pipes that are outside double quotes
RECURSIVE SplitTop(_, _, _)
SplitTop(s, item, quoted) ==
    IF s = <<>> THEN <<item>>
    ELSE IF Head(s) = "|" /\ ~quoted THEN <<item>> \o SplitTop(Tail(s), <<>>, FALSE)
    ELSE SplitTop(Tail(s), Append(item, Head(s)),
                  IF Head(s) = DQ THEN ~quoted ELSE quoted)

Items(s) == SplitTop(s, <<>>, FALSE)

IsKeyed(item) == key_length(strip(item), 1) > 0

\* the item without the blanks around it and without its key
Unkeyed(item) ==
    LET body == strip(item) IN SubSeq(body, key_length(body, 1) + 1, Len(body))

Quotes(s) == {i \in 1..Len(s) : s[i] = DQ}

IsQuoted(v) == Len(v) >= 2 /\ Quotes(v) = {1, Len(v)}
IsBare(v) == v # <<>> /\ Quotes(v) = {}

\* the value of an item: what is between its quotes, or all of it
ItemValue(item) ==
    LET v == Unkeyed(item)
    IN  IF IsQuoted(v) THEN SubSeq(v, 2, Len(v) - 1) ELSE v

\* s is one of the two documented forms: every item 'k=value', or no key
\* anywhere; every value either bare and not empty, or in one pair of
\* double quotes
WellFormed(s) ==
    /\ s \notin {None, NotAStr, <<>>}
    /\ LET items == Items(s)
       IN  /\ \A n \in 1..Len(items) :
                  IsQuoted(Unkeyed(items[n])) \/ IsBare(Unkeyed(items[n]))
           /\ \/ \A n \in 1..Len(items) : IsKeyed(items[n])
              \/ ~has_key(s)

MaxLines == 3
\* largest chunk_size
MaxChunk == 3
\* most calls in a run
MaxCalls == 3

GraphNames == {"G1", "G2"}

Triples ==
    {<<"s1", "p1", "o">>, <<"s1", "p2", "o">>, <<"s2", "p1", "o">>, <<"s2", "p2", "o">>}

\* what a named graph holds at the start
InitialGraphs == {{}, {<<"s1", "p2", "o">>, <<"s2", "p2", "o">>}}

\* the responses of the endpoint: the update is applied, or it is refused
Statuses == {200, 500}

Min(a, b) == IF a <= b THEN a ELSE b

\* the orders in which a set of triples can be written, one line each
Orderings(S) ==
    {l \in [1..Cardinality(S) -> S] : \A a, b \in 1..Cardinality(S) : l[a] = l[b] => a = b}

\* the named graph replaced by the block instead of added to
insert_data_replace(st, uri, block) ==
    [st EXCEPT ![uri] = {block[n] : n \in 1..Len(block)}]

\* the block added to one fixed graph, whatever graph_uri names
insert_data_fixed_graph(st, uri, block) ==
    [st EXCEPT !["G1"] = @ \cup {block[n] : n \in 1..Len(block)}]

\* INSERT DATA { GRAPH <uri> { block } }
insert_data(st, uri, block) ==
    [st EXCEPT ![uri] = @ \cup {block[n] : n \in 1..Len(block)}]

\* the whole list in every request, no chunking
block_of_all(ls, at, size) == ls

\* the slice one line too long: lines[i:i+chunk_size+1]
block_of_overlap(ls, at, size) == SubSeq(ls, at + 1, Min(at + size + 1, Len(ls)))

\* lines[i:i+chunk_size], counted from 0; loop_i is the i of the loop
block_of(ls, at, size) == SubSeq(ls, at + 1, Min(at + size, Len(ls)))

\* the exception of a refused request caught and the loop carried on
query_swallowed(status) == Returned(status)

\* sparql.query(): the response, or the exception SPARQLWrapper raises for
\* a status that is no success
query(status) ==
    IF status = 200 THEN Returned(status)
    ELSE Raised("EndPointInternalError: HTTP 500")

\* a call ends: its outcome is added to calls
Ended(f, outcome) == calls' = Append(calls, [fn |-> f, outcome |-> outcome])

CanCall == pc \in {"idle", "returned", "raised"} /\ Len(calls) < MaxCalls

(* -------------------- insert_graph_into_named_graph -------------------- *)

InitInsert ==
    /\ pc = "idle"
    /\ fn = ""
    /\ ret = None
    /\ exc = ""
    /\ stdout = <<>>
    /\ store \in [GraphNames -> InitialGraphs]
    /\ requests = <<>>
    /\ in_flight = <<>>
    /\ calls = <<>>
    /\ g_new \in {S \in SUBSET Triples : Cardinality(S) <= MaxLines}
    /\ graph_uri \in GraphNames
    /\ chunk_size \in 1..MaxChunk
    /\ lines = <<>>
    /\ loop_i = 0
    /\ subject = ""
    /\ predicate = ""
    /\ NoArgs({"store"})

\* lines 346-356: the graph is serialized, one line for each triple in the
\* order the serializer gives; with no line the call returns
insert_begin ==
    /\ CanCall
    /\ fn' = "insert_graph_into_named_graph"
    /\ \E ls \in Orderings(g_new) :
          /\ lines' = ls
          /\ IF ls = <<>>
             THEN /\ pc' = "returned"
                  /\ stdout' = <<"No new triples to insert.">>
                  /\ Ended("insert_graph_into_named_graph", "returned")
             ELSE /\ pc' = "insert"
                  /\ stdout' = <<>>
                  /\ UNCHANGED calls
    /\ loop_i' = 0
    /\ requests' = <<>>
    /\ in_flight' = <<>>
    /\ ret' = None
    /\ exc' = ""
    /\ UNCHANGED <<store, g_new, graph_uri, chunk_size, subject, predicate,
                   text, study_id, cohort_id, var_id, var_name,
                   multi_class_categorical, binary_categorical, data_type, g,
                   input_str, obj, df, docs>>

\* query() returning before the response is there
query_returns_at_once == "insert"

\* line 369: query() returns when the response is there
query_blocks == "waiting"

\* lines 359-369: one pass of the loop sends the block
insert_send ==
    /\ pc = "insert" /\ fn = "insert_graph_into_named_graph"
    /\ loop_i < Len(lines)
    /\ in_flight' = Append(in_flight,
           [kind |-> "INSERT DATA", graph |-> graph_uri, offset |-> loop_i,
            block |-> block_of(lines, loop_i, chunk_size)])
    /\ pc' = query_blocks
    /\ UNCHANGED <<fn, ret, exc, stdout, store, requests, calls, loop_i,
                   lines, g_new, graph_uri, chunk_size, subject, predicate,
                   text, study_id, cohort_id, var_id, var_name,
                   multi_class_categorical, binary_categorical, data_type, g,
                   input_str, obj, df, docs>>

\* lines 369-370: the response is there; an exception of query() ends the
\* call, and so does the end of the lines
insert_response ==
    /\ pc = "waiting" /\ fn = "insert_graph_into_named_graph"
    /\ in_flight # <<>>
    /\ \E status \in Statuses :
          LET sent == Head(in_flight)
              res == query(status)
          IN  /\ requests' = Append(requests,
                     [kind |-> sent.kind, graph |-> sent.graph, offset |-> sent.offset,
                      block |-> sent.block, status |-> status])
              /\ in_flight' = Tail(in_flight)
              /\ IF res.kind = "return"
                 THEN /\ store' = insert_data(store, sent.graph, sent.block)
                      /\ stdout' = Append(stdout, "Inserted")
                      /\ loop_i' = loop_i + chunk_size
                      /\ exc' = exc
                      /\ IF loop_i + chunk_size < Len(lines)
                         THEN pc' = "insert" /\ UNCHANGED calls
                         ELSE pc' = "returned"
                              /\ Ended("insert_graph_into_named_graph", "returned")
                 ELSE /\ store' = store
                      /\ stdout' = stdout
                      /\ loop_i' = loop_i
                      /\ exc' = res.value
                      /\ pc' = "raised"
                      /\ Ended("insert_graph_into_named_graph", "raised")
    /\ UNCHANGED <<fn, ret, lines, g_new, graph_uri, chunk_size, subject, predicate,
                   text, study_id, cohort_id, var_id, var_name,
                   multi_class_categorical, binary_categorical, data_type, g,
                   input_str, obj, df, docs>>

NextInsert ==
    \/ insert_begin
    \/ insert_send
    \/ insert_response

SpecInsert == InitInsert /\ [][NextInsert]_vars

(* ------------- properties of insert_graph_into_named_graph ------------- *)

Inserting == fn = "insert_graph_into_named_graph"

Ceil(n, c) == (n + c - 1) \div c

(* C16: every request of an insert carries at least one and at most         *)
(* chunk_size lines, and a call whose requests all succeeded has sent       *)
(* ceil(N / chunk_size) of them, N the number of triple lines: none when N  *)
(* is 0.                                                                    *)
C16_ChunkCount ==
    Inserting =>
        /\ \A n \in 1..Len(requests) :
              /\ requests[n].kind = "INSERT DATA"
              /\ Len(requests[n].block) >= 1
              /\ Len(requests[n].block) <= chunk_size
        /\ pc = "returned" =>
              Len(requests) = Ceil(Cardinality(g_new), chunk_size)

C16_Witness ==
    /\ Gave("insert_graph_into_named_graph")
    /\ Cardinality(g_new) = 3
    /\ chunk_size = 2
    /\ Len(requests) = 2
    /\ Len(requests[2].block) = 1

BlockSet(r) == {r.block[n] : n \in 1..Len(r.block)}

(* C17: a request of an insert that the endpoint refuses is the last one   *)
(* of the call: the call ends with the exception that carries the HTTP     *)
(* status, no chunk is sent twice, and the triples of the chunks that were *)
(* accepted before it stay in the named graph.                             *)
C17_FailureEndsTheCall ==
    Inserting =>
        /\ \A n \in 1..Len(requests) :
              requests[n].status # 200 =>
                  /\ n = Len(requests)
                  /\ pc = "raised"
                  /\ exc = "EndPointInternalError: HTTP 500"
        /\ \A m, n \in 1..Len(requests) :
              requests[m].offset = requests[n].offset => m = n
        /\ \A n \in 1..Len(requests) :
              requests[n].status = 200 => BlockSet(requests[n]) \subseteq store[graph_uri]

C17_Witness ==
    /\ Inserting /\ pc = "raised"
    /\ Len(requests) = 2
    /\ requests[1].status = 200
    /\ requests[2].status = 500
    /\ BlockSet(requests[1]) \subseteq store[graph_uri]
    /\ \E t \in g_new : t \notin store[graph_uri]

(* C25: the requests of an insert go out one after the other in the order *)
(* of the lines: at most one is without its response, it is sent after    *)
(* the responses to all the chunks before it, which were all accepted,    *)
(* and a refused request is the last request of the call.                 *)
C25_OneAtATime ==
    Inserting =>
        /\ Len(in_flight) <= 1
        /\ \A n \in 1..Len(requests) :
              /\ requests[n].offset = (n - 1) * chunk_size
              /\ requests[n].status # 200 => (n = Len(requests) /\ in_flight = <<>>)
        /\ \A n \in 1..Len(in_flight) :
              in_flight[n].offset = Len(requests) * chunk_size

C25_Witness ==
    /\ Inserting /\ pc = "waiting"
    /\ Len(in_flight) = 1
    /\ Len(requests) = 2
    /\ chunk_size = 1
    /\ in_flight[1].offset = 2

(* C26: when every request of an insert was accepted, the blocks of the   *)
(* requests, one after the other in the order sent, are the lines of the  *)
(* graph, each triple of g_new on one line and no line twice, and the     *)
(* target named graph holds every triple of g_new.                        *)
C26_EveryLineOnce ==
    Gave("insert_graph_into_named_graph") =>
        /\ Flatten([n \in 1..Len(requests) |-> requests[n].block]) = lines
        /\ {lines[n] : n \in 1..Len(lines)} = g_new
        /\ Len(lines) = Cardinality(g_new)
        /\ g_new \subseteq store[graph_uri]

C26_Witness ==
    /\ Gave("insert_graph_into_named_graph")
    /\ Cardinality(g_new) = 3
    /\ chunk_size = 2
    /\ Len(requests) = 2
    /\ requests[1].block \o requests[2].block = lines
    /\ g_new \subseteq store[graph_uri]

InsertReturned == [fn |-> "insert_graph_into_named_graph", outcome |-> "returned"]

(* C18: when an insert of the graph into the named graph has returned with  *)
(* every request accepted, a further insert of the same graph into the same *)
(* named graph changes nothing in the store, whatever the calls before did. *)
C18_SecondRunChangesNothing ==
    [][(/\ Len(calls) > 0
        /\ calls[Len(calls)] = InsertReturned
        /\ fn' = "insert_graph_into_named_graph")
       => store' = store]_vars

C18_Witness ==
    /\ Inserting /\ pc = "returned"
    /\ Len(calls) = 3
    /\ calls[1].outcome = "raised"
    /\ calls[2] = InsertReturned
    /\ calls[3] = InsertReturned
    /\ Len(requests) >= 2
    /\ g_new \subseteq store[graph_uri]

(* C19: no step of an insert, accepted or refused, takes a triple out of   *)
(* the target named graph, and none changes another named graph.           *)
C19_OnlyAppends ==
    [][fn' = "insert_graph_into_named_graph" =>
          \A gr \in GraphNames :
              /\ store[gr] \subseteq store'[gr]
              /\ gr # graph_uri => store'[gr] = store[gr]]_vars

C19_Witness ==
    /\ Inserting /\ pc = "returned"
    /\ Len(calls) = 2
    /\ calls[1].outcome = "raised"
    /\ g_new # {}
    /\ g_new \subseteq store[graph_uri]
    /\ \E t \in store[graph_uri] : t \notin g_new
    /\ \E gr \in GraphNames : gr # graph_uri /\ store[gr] # {} /\ store[gr] \cap g_new = {}

(* ------------------ delete_existing_triples, graph_exists -------------- *)

Subjects == {"?s", "s1"}
Predicates == {"?p", "p1"}

\* a term of the pattern that is a variable matches every term
IsVariable(term) == term \in {"?s", "?p"}

Matches(t, subj, pred) ==
    /\ IsVariable(subj) \/ t[1] = subj
    /\ IsVariable(pred) \/ t[2] = pred

\* the pattern matched in every named graph, the GRAPH clause left out
delete_where_every_graph(st, uri, subj, pred) ==
    [gr \in DOMAIN st |-> {t \in st[gr] : ~Matches(t, subj, pred)}]

\* DELETE WHERE { GRAPH <uri> { subj pred ?o . } }
delete_where(st, uri, subj, pred) ==
    [st EXCEPT ![uri] = {t \in @ : ~Matches(t, subj, pred)}]

\* ASK WHERE { GRAPH <uri> { ?s ?p ?o } }
graph_exists(st, uri) == st[uri] # {}

\* the update sent whatever graph_exists answered
delete_guard_none(exists) == TRUE

\* if graph_exists(graph_uri):
delete_guard(exists) == exists

InitDelete ==
    /\ pc = "idle"
    /\ fn = ""
    /\ ret = None
    /\ exc = ""
    /\ stdout = <<>>
    /\ store \in [GraphNames -> InitialGraphs]
    /\ requests = <<>>
    /\ in_flight = <<>>
    /\ calls = <<>>
    /\ g_new = {}
    /\ graph_uri \in GraphNames
    /\ chunk_size = 0
    /\ lines = <<>>
    /\ loop_i = 0
    /\ subject \in Subjects
    /\ predicate \in Predicates
    /\ NoArgs({"store"})

\* lines 239-240 and 262-274, 259-260: graph_exists asks the query endpoint;
\* an exception of query() ends the call, the answer false ends it too
delete_ask ==
    /\ CanCall
    /\ fn' = "delete_existing_triples"
    /\ \E status \in Statuses :
          LET res == query(status)
              exists == graph_exists(store, graph_uri)
          IN  /\ requests' = <<[kind |-> "ASK", endpoint |-> "query", graph |-> graph_uri,
                               status |-> status,
                               answer |-> (res.kind = "return" /\ exists)]>>
              /\ IF res.kind # "return"
                 THEN /\ pc' = "raised"
                      /\ exc' = res.value
                      /\ stdout' = <<"deleting existing triples", "Checking if graph exists">>
                      /\ Ended("delete_existing_triples", "raised")
                 ELSE /\ exc' = ""
                      /\ IF delete_guard(exists)
                         THEN /\ pc' = "delete"
                              /\ stdout' = <<"deleting existing triples",
                                             "Checking if graph exists", "Graph exists", "Query">>
                              /\ UNCHANGED calls
                         ELSE /\ pc' = "returned"
                              /\ stdout' = <<"deleting existing triples",
                                             "Checking if graph exists", "Graph does not exist">>
                              /\ Ended("delete_existing_triples", "returned")
    /\ ret' = None
    /\ UNCHANGED <<store, in_flight, g_new, graph_uri, chunk_size, lines, loop_i, subject, predicate,
                   text, study_id, cohort_id, var_id, var_name,
                   multi_class_categorical, binary_categorical, data_type, g,
                   input_str, obj, df, docs>>

\* lines 251-258: the DELETE WHERE is sent to the update endpoint
delete_update ==
    /\ pc = "delete" /\ fn = "delete_existing_triples"
    /\ \E status \in Statuses :
          LET res == query(status)
          IN  /\ requests' = Append(requests,
                     [kind |-> "DELETE WHERE", endpoint |-> "update", graph |-> graph_uri,
                      subject |-> subject, predicate |-> predicate, status |-> status])
              /\ IF res.kind = "return"
                 THEN /\ store' = delete_where(store, graph_uri, subject, predicate)
                      /\ stdout' = Append(stdout, "graph deletion status code")
                      /\ exc' = exc
                      /\ pc' = "returned"
                      /\ Ended("delete_existing_triples", "returned")
                 ELSE /\ store' = store
                      /\ stdout' = stdout
                      /\ exc' = res.value
                      /\ pc' = "raised"
                      /\ Ended("delete_existing_triples", "raised")
    /\ UNCHANGED <<fn, ret, in_flight, g_new, graph_uri, chunk_size, lines, loop_i, subject, predicate,
                   text, study_id, cohort_id, var_id, var_name,
                   multi_class_categorical, binary_categorical, data_type, g,
                   input_str, obj, df, docs>>

NextDelete ==
    \/ delete_ask
    \/ delete_update

SpecDelete == InitDelete /\ [][NextDelete]_vars

(* ------------------ properties of delete_existing_triples -------------- *)

Deleting == fn = "delete_existing_triples"

(* C20: a DELETE WHERE of delete_existing_triples follows, in the same     *)
(* call, an ASK on the same named graph that answered true; when the ASK   *)
(* answered false no update is sent, and the store changes in no step but  *)
(* an accepted DELETE WHERE.                                               *)
C20_DeleteOnlyAfterExists ==
    /\ [](Deleting =>
            /\ \A n \in 1..Len(requests) :
                  requests[n].kind = "DELETE WHERE" =>
                      /\ n > 1
                      /\ requests[n - 1].kind = "ASK"
                      /\ requests[n - 1].graph = requests[n].graph
                      /\ requests[n - 1].answer
            /\ (requests # <<>> /\ ~requests[1].answer) => Len(requests) = 1)
    /\ [][(fn' = "delete_existing_triples" /\ store' # store) =>
             /\ Len(requests') = 2
             /\ requests'[1].answer
             /\ requests'[2].kind = "DELETE WHERE"]_vars

C20_Witness ==
    /\ Deleting /\ pc = "returned"
    /\ Len(calls) = 2
    /\ Len(requests) = 1
    /\ requests[1].status = 200
    /\ ~requests[1].answer
    /\ store[graph_uri] = {}
    /\ \E gr \in GraphNames : store[gr] # {}

\* the triple has the subject and the predicate the call names, "?s" and
\* "?p" naming any
FitsPatterns(t) ==
    /\ subject = "?s" \/ t[1] = subject
    /\ predicate = "?p" \/ t[2] = predicate

(* C21: a step of delete_existing_triples takes out of the store only      *)
(* triples of the named graph graph_uri that have the subject and the      *)
(* predicate of the call, and adds none: the other named graphs and the    *)
(* other triples of graph_uri stay; an accepted DELETE WHERE with the      *)
(* default patterns leaves graph_uri without triples.                      *)
C21_DeleteFrame ==
    [][fn' = "delete_existing_triples" =>
          /\ \A gr \in GraphNames :
                /\ store'[gr] \subseteq store[gr]
                /\ gr # graph_uri => store'[gr] = store[gr]
                /\ \A t \in store[gr] \ store'[gr] : FitsPatterns(t)
          /\ \A t \in store[graph_uri] : ~FitsPatterns(t) => t \in store'[graph_uri]
          /\ (/\ Len(requests') = 2
              /\ Len(requests) = 1
              /\ requests'[2].status = 200
              /\ subject = "?s" /\ predicate = "?p") => store'[graph_uri] = {}]_vars

C21_Witness ==
    /\ Deleting /\ pc = "returned"
    /\ Len(requests) = 2
    /\ requests[2].status = 200
    /\ subject = "s1" /\ predicate = "?p"
    /\ store[graph_uri] = {<<"s2", "p2", "o">>}
    /\ \E gr \in GraphNames : gr # graph_uri /\ <<"s1", "p2", "o">> \in store[gr]

(* ------- graph_exists, check_triple_exists, variable_exists ------------ *)
(* The object of a triple of the store is a term: an IRI, or a literal of  *)
(* a lexical form and a datatype, "" the datatype of a plain literal.      *)

Iri(v) == <<"iri", v, "">>
PlainLiteral(v) == <<"literal", v, "">>
TypedLiteral(v, dt) == <<"literal", v, dt>>

\* rdflib's URIRef and Literal
URIRef(v) == [type |-> "URIRef", value |-> v, datatype |-> ""]
Literal(v, dt) == [type |-> "Literal", value |-> v, datatype |-> dt]

\* the term the store holds for an object of rdflib
term_of(o) == IF o.type = "URIRef" THEN Iri(o.value) ELSE TypedLiteral(o.value, o.datatype)

\* f'<{obj}>' if isinstance(obj, URIRef) else f'"{obj}"'
ask_object(o) == IF o.type = "URIRef" THEN Iri(o.value) ELSE PlainLiteral(o.value)

Objects == {URIRef(<<"o">>), Literal(<<"5">>, ""), Literal(<<"5">>, "xsd:integer")}

cmeo_data_element == Iri(<<"cmeo:data_element">>)

\* what a named graph holds when a check is called
AskGraphs ==
    {{},
     {<<"s1", "p1", Iri(<<"o">>)>>},
     {<<"s1", "p1", PlainLiteral(<<"5">>)>>},
     {<<"s1", "p1", TypedLiteral(<<"5">>, "xsd:integer")>>},
     {<<"v", "rdf:type", cmeo_data_element>>,
      <<"v", "dc:identifier", PlainLiteral(<<"a">>)>>},
     {<<"v", "rdf:type", cmeo_data_element>>,
      <<"v", "dc:identifier", PlainLiteral(<<"a">>)>>,
      <<"v", "bfo:is_part_of", Iri(<<"spec">>)>>}}

\* ASK WHERE { GRAPH <uri> { <s> <p> o } }
check_triple_exists(st, uri, s, p, o) == <<s, p, ask_object(o)>> \in st[uri]

\* ASK WHERE { GRAPH <uri> { ?variable rdf:type cmeo:data_element ;
\*     dc:identifier "name" ; bfo:is_part_of ?variable_spec_uri . } }
variable_exists(st, uri, name) ==
    \E t \in st[uri] :
        /\ t[2] = "rdf:type" /\ t[3] = cmeo_data_element
        /\ <<t[1], "dc:identifier", PlainLiteral(str(normalize_text(name)))>> \in st[uri]
        /\ \E u \in st[uri] : u[1] = t[1] /\ u[2] = "bfo:is_part_of"

AskFrame(f) ==
    /\ Frame(f)
    /\ store \in [GraphNames -> AskGraphs]
    /\ requests = <<>>
    /\ in_flight = <<>>
    /\ calls = <<>>
    /\ g_new = {}
    /\ graph_uri \in GraphNames
    /\ chunk_size = 0
    /\ lines = <<>>
    /\ loop_i = 0

InitAsk ==
    \/ /\ AskFrame("graph_exists")
       /\ subject = "" /\ predicate = ""
       /\ NoArgs({"store"})
    \/ /\ AskFrame("check_triple_exists")
       /\ subject = "s1" /\ predicate = "p1"
       /\ obj \in Objects
       /\ NoArgs({"store", "obj"})
    \/ /\ AskFrame("variable_exists")
       /\ subject = "" /\ predicate = ""
       /\ var_name \in CategoricalNames
       /\ NoArgs({"store", "var_name"})

\* the ASK is sent to the query endpoint; query() raises, or convert() gives
\* the answer that is printed about and returned
Ask(answer, before, after) ==
    /\ pc = "call"
    /\ \E status \in Statuses :
          LET res == query(status)
          IN  /\ requests' = <<[kind |-> "ASK", endpoint |-> "query", graph |-> graph_uri,
                               status |-> status,
                               answer |-> (res.kind = "return" /\ answer)]>>
              /\ pc' = IF res.kind = "return" THEN "returned" ELSE "raised"
              /\ ret' = IF res.kind = "return" THEN answer ELSE None
              /\ exc' = IF res.kind = "return" THEN "" ELSE res.value
              /\ stdout' = IF res.kind = "return" /\ answer THEN before \o after ELSE before
    /\ UNCHANGED <<fn, store, in_flight, calls, g_new, graph_uri, chunk_size, lines, loop_i,
                   subject, predicate, obj,
                   text, study_id, cohort_id, var_id, var_name,
                   multi_class_categorical, binary_categorical, data_type, g,
                   input_str, df, docs>>

call_graph_exists ==
    /\ fn = "graph_exists"
    /\ Ask(graph_exists(store, graph_uri), <<"Checking if graph exists">>, <<>>)

call_check_triple_exists ==
    /\ fn = "check_triple_exists"
    /\ Ask(check_triple_exists(store, graph_uri, subject, predicate, obj),
           <<"Checking if triple exists">>, <<>>)

call_variable_exists ==
    /\ fn = "variable_exists"
    /\ Ask(variable_exists(store, graph_uri, var_name),
           <<>>, <<"Variable exists in the graph.">>)

NextAsk ==
    \/ call_graph_exists
    \/ call_check_triple_exists
    \/ call_variable_exists

SpecAsk == InitAsk /\ [][NextAsk]_vars

(* ------------------ properties of the existence checks ----------------- *)

OnlyAsked ==
    \A n \in 1..Len(requests) :
        requests[n].kind = "ASK" /\ requests[n].endpoint = "query"

(* C22: the three checks send nothing but an ASK to the query endpoint and *)
(* change nothing in the store; graph_exists returns true exactly when the *)
(* named graph holds a triple, check_triple_exists exactly when the triple *)
(* of its arguments is in the named graph.                                 *)
C22_PureChecks ==
    /\ [](OnlyAsked
          /\ (Gave("graph_exists") => ret = (store[graph_uri] # {}))
          /\ (Gave("check_triple_exists") =>
                 ret = (<<subject, predicate, term_of(obj)>> \in store[graph_uri])))
    /\ [][store' = store]_vars

(* the same, for an object that is an IRI or a plain literal *)
C22_PureChecksPlainObjects ==
    /\ [](OnlyAsked
          /\ (Gave("graph_exists") => ret = (store[graph_uri] # {}))
          /\ ((Gave("check_triple_exists") /\ obj.datatype = "") =>
                 ret = (<<subject, predicate, term_of(obj)>> \in store[graph_uri])))
    /\ [][store' = store]_vars

(* --------- generate_rdflib_docs.py, generate_ontospy_docs.py ----------- *)
(* A run of a script.  ontology_file says whether the file parses and how  *)
(* many triples it gives, onto is what the load gave, files the files      *)
(* written so far in order, exit_status the status of the ended process.   *)

\* most triples in the ontology file
MaxOntologyTriples == 4

OntologyFiles ==
    {[parses |-> FALSE, triples |-> 0]}
        \cup {[parses |-> TRUE, triples |-> n] : n \in 0..MaxOntologyTriples}

NoGraph == [graph |-> FALSE, len |-> 0]
LoadedGraph(n) == [graph |-> TRUE, len |-> n]

\* load_ontology with the exception of parse() let through
load_ontology_uncaught(file) ==
    IF file.parses
    THEN Printed(<<"Ontology loaded successfully">>, Returned(LoadedGraph(file.triples)))
    ELSE Raised("Exception")

\* g.parse() in try, None on an exception
load_ontology(file) ==
    IF file.parses
    THEN Printed(<<"Ontology loaded successfully">>, Returned(LoadedGraph(file.triples)))
    ELSE Printed(<<"Error loading ontology">>, Returned(NoGraph))

\* not g: None is false, and so is a Graph of no triple, by its __len__
not_g(v) == ~v.graph \/ v.len = 0

RdflibFiles ==
    <<"cmeo_comprehensive_documentation.html", "cmeo_documentation.json",
      "cmeo_documentation.md", "index.html">>

OntospyFiles ==
    <<"cmeo_ontospy_documentation.html", "cmeo_statistics.txt",
      "cmeo_console_documentation.txt", "cmeo_rdf_documentation.ttl",
      "cmeo_sparql_queries.txt", "cmeo_visualization.html", "index.html">>

InitDocs ==
    /\ pc = "start"
    /\ fn \in {"generate_rdflib_docs", "generate_ontospy_docs"}
    /\ ret = None
    /\ exc = ""
    /\ stdout = <<>>
    /\ ontology_file \in OntologyFiles
    /\ onto = NoGraph
    /\ files = <<>>
    /\ exit_status = {}
    /\ NoArgs({"docs"})

Rest ==
    UNCHANGED <<fn, text, study_id, cohort_id, var_id, var_name,
                multi_class_categorical, binary_categorical, data_type, g,
                input_str, store, requests, in_flight, calls, g_new, graph_uri,
                chunk_size, lines, loop_i, subject, predicate, obj, df, ontology_file>>

\* generate_rdflib_docs.py lines 879-882: the ontology is loaded; with a
\* false g the script exits with status 1
rdflib_load ==
    /\ fn = "generate_rdflib_docs" /\ pc = "start"
    /\ LET r == load_ontology(ontology_file)
       IN  IF r.kind = "raise"
           THEN /\ pc' = "exited"
                /\ exc' = r.value
                /\ exit_status' = {1}
                /\ stdout' = <<"Starting">> \o r.out
                /\ onto' = onto
           ELSE /\ onto' = r.value
                /\ exc' = exc
                /\ IF not_g(r.value)
                   THEN /\ pc' = "exited"
                        /\ exit_status' = {1}
                        /\ stdout' = <<"Starting">> \o r.out \o <<"Failed to load ontology">>
                   ELSE /\ pc' = "statistics"
                        /\ exit_status' = exit_status
                        /\ stdout' = <<"Starting">> \o r.out
    /\ UNCHANGED <<ret, files>>
    /\ Rest

\* lines 885-895: the statistics, and the output directory
rdflib_statistics ==
    /\ fn = "generate_rdflib_docs" /\ pc = "statistics"
    /\ pc' = "html"
    /\ stdout' = Append(stdout, "Ontology statistics")
    /\ UNCHANGED <<ret, exc, onto, files, exit_status>>
    /\ Rest

RdflibWrite(at, next, n) ==
    /\ fn = "generate_rdflib_docs" /\ pc = at
    /\ pc' = next
    /\ files' = Append(files, RdflibFiles[n])
    /\ UNCHANGED <<ret, exc, stdout, onto, exit_status>>
    /\ Rest

\* line 901
rdflib_html == RdflibWrite("html", "json", 1)

\* line 904
rdflib_json == RdflibWrite("json", "markdown", 2)

\* line 907
rdflib_markdown == RdflibWrite("markdown", "index", 3)

\* line 910
rdflib_index == RdflibWrite("index", "browser", 4)

\* lines 912-926: the browser is opened, main returns True and the script ends
rdflib_finish ==
    /\ fn = "generate_rdflib_docs" /\ pc = "browser"
    /\ pc' = "exited"
    /\ ret' = TRUE
    /\ exit_status' = {0}
    /\ stdout' = stdout \o <<"Documentation generation complete", "Opening HTML documentation">>
    /\ UNCHANGED <<exc, onto, files>>
    /\ Rest

\* generate_ontospy_docs.py lines 125-127 and 354-356: an exception caught,
\* False returned and the script ended with status 1
OntospyFailed ==
    /\ pc' = "exited"
    /\ ret' = FALSE
    /\ exit_status' = {1}
    /\ stdout' = stdout \o <<"Error generating documentation", "Documentation generation failed!">>

\* lines 32-44: Ontospy(ontology_file) in the try
ontospy_load ==
    /\ fn = "generate_ontospy_docs" /\ pc = "start"
    /\ IF ontology_file.parses
       THEN /\ pc' = "html"
            /\ onto' = LoadedGraph(ontology_file.triples)
            /\ stdout' = stdout \o <<"Ontology loaded successfully!", "Ontology statistics">>
            /\ UNCHANGED <<ret, exit_status>>
       ELSE /\ OntospyFailed
            /\ onto' = onto
    /\ UNCHANGED <<exc, files>>
    /\ Rest

\* a generator builds its output and the file is written, or one of the two
\* raises
OntospyWrite(at, next, n) ==
    /\ fn = "generate_ontospy_docs" /\ pc = at
    /\ \E ok \in BOOLEAN :
          IF ok
          THEN /\ pc' = next
               /\ files' = Append(files, OntospyFiles[n])
               /\ UNCHANGED <<ret, stdout, exit_status>>
          ELSE /\ OntospyFailed
               /\ files' = files
    /\ UNCHANGED <<exc, onto>>
    /\ Rest

\* lines 46-56
ontospy_html == OntospyWrite("html", "stats", 1)

\* lines 58-67
ontospy_stats == OntospyWrite("stats", "console", 2)

\* lines 69-78
ontospy_console == OntospyWrite("console", "rdf", 3)

\* lines 80-89
ontospy_rdf == OntospyWrite("rdf", "sparql", 4)

\* lines 91-100
ontospy_sparql == OntospyWrite("sparql", "viz", 5)

\* lines 102-111
ontospy_viz == OntospyWrite("viz", "index", 6)

\* line 114
ontospy_index == OntospyWrite("index", "browser", 7)

\* lines 116-123 and 349-353
ontospy_finish ==
    /\ fn = "generate_ontospy_docs" /\ pc = "browser"
    /\ pc' = "exited"
    /\ ret' = TRUE
    /\ exit_status' = {0}
    /\ stdout' = stdout \o <<"Documentation generation complete",
                             "Documentation generation completed successfully!">>
    /\ UNCHANGED <<exc, onto, files>>
    /\ Rest

NextDocs ==
    \/ rdflib_load
    \/ rdflib_statistics
    \/ rdflib_html
    \/ rdflib_json
    \/ rdflib_markdown
    \/ rdflib_index
    \/ rdflib_finish
    \/ ontospy_load
    \/ ontospy_html
    \/ ontospy_stats
    \/ ontospy_console
    \/ ontospy_rdf
    \/ ontospy_sparql
    \/ ontospy_viz
    \/ ontospy_index
    \/ ontospy_finish

SpecDocs == InitDocs /\ [][NextDocs]_vars

(* ----------------- properties of the documentation scripts ------------- *)

(* C23: when the ontology file does not parse, the first step of either    *)
(* script catches the exception, gives its caller a false value (None from *)
(* load_ontology, False from generate_ontospy_documentation), and the      *)
(* process ends with status 1 and no file written.                         *)
C23_LoadFailure ==
    (~ontology_file.parses /\ pc # "start") =>
        /\ pc = "exited"
        /\ exc = ""
        /\ exit_status = {1}
        /\ files = <<>>
        /\ fn = "generate_rdflib_docs" => ~onto.graph
        /\ fn = "generate_ontospy_docs" => ret = FALSE

C23_Witness ==
    /\ ~ontology_file.parses
    /\ pc = "exited"
    /\ fn = "generate_ontospy_docs"
    /\ ret = FALSE
    /\ exit_status = {1}

(* ------------------------ is_categorical_variable ---------------------- *)
(* df is the data dictionary: a sequence of rows, each the variablename    *)
(* and the categorical value of a variable.                                *)

\* most rows in the data dictionary
MaxRows == 2

RowNames == {<<"a">>, <<"A">>, <<"a", " ", "a">>}

\* categorical values: NaN, empty, and one, two and three entries
RowValues ==
    {NotAStr, <<>>, <<"0">>, <<"0", "|", "1">>, <<"0", "|", "1", "|", "2">>}

Rows == [variablename : RowNames, categorical : RowValues]

DataFrames == UNION {[1..k -> Rows] : k \in 1..MaxRows}

\* pd.notna(value) and value != ""
NotEmptyValue(value) == value # NotAStr /\ value # <<>>

\* len(value.split("|"))
Entries(value) == 1 + Cardinality({n \in 1..Len(value) : value[n] = "|"})

\* dict(zip(df['variablename'], df['categorical'])): the value of a name is
\* that of its last row
column_dict(d, key) ==
    LET last == CHOOSE n \in 1..Len(d) :
                    /\ d[n].variablename = key
                    /\ \A m \in 1..Len(d) : d[m].variablename = key => m <= n
    IN  d[last].categorical

\* the two lists, binary_categorical first
is_categorical_variable(d) ==
    LET keys == {d[n].variablename : n \in 1..Len(d)}
        filled == {key \in keys : NotEmptyValue(column_dict(d, key))}
    IN  <<{normalize_text(key) : key \in {k \in filled : Entries(column_dict(d, k)) = 2}},
          {normalize_text(key) : key \in {k \in filled : Entries(column_dict(d, k)) # 2}}>>

InitCategorical ==
    /\ Frame("is_categorical_variable")
    /\ df \in DataFrames
    /\ NoArgs({"df"})

call_is_categorical_variable ==
    /\ pc = "call" /\ fn = "is_categorical_variable"
    /\ LET r == is_categorical_variable(df)
       IN  /\ ret' = r
           /\ binary_categorical' = r[1]
           /\ multi_class_categorical' = r[2]
    /\ pc' = "returned"
    /\ UNCHANGED <<fn, exc, stdout, text, study_id, cohort_id, var_id, var_name,
                   data_type, g, input_str, store, requests, in_flight, calls, g_new,
                   graph_uri, chunk_size, lines, loop_i, subject, predicate, obj,
                   df, docs>>

\* determine_var_uri called with the name of a row and the two lists
call_determine_var_uri_of_row ==
    /\ pc = "returned" /\ fn = "is_categorical_variable"
    /\ \E n \in 1..Len(df), dtype \in DataTypes :
          LET r == determine_var_uri(g, <<"a">>, df[n].variablename,
                                     multi_class_categorical, binary_categorical, dtype)
          IN  /\ fn' = "determine_var_uri"
              /\ cohort_id' = <<"a">>
              /\ var_name' = df[n].variablename
              /\ data_type' = dtype
              /\ pc' = IF r.kind = "return" THEN "returned" ELSE "raised"
              /\ ret' = IF r.kind = "return" THEN r.value ELSE None
              /\ exc' = IF r.kind = "raise" THEN r.value ELSE ""
              /\ stdout' = stdout \o r.out
    /\ UNCHANGED <<text, study_id, var_id, multi_class_categorical, binary_categorical,
                   g, input_str, store, requests, in_flight, calls, g_new,
                   graph_uri, chunk_size, lines, loop_i, subject, predicate, obj,
                   df, docs>>

NextCategorical ==
    \/ call_is_categorical_variable
    \/ call_determine_var_uri_of_row

SpecCategorical == InitCategorical /\ [][NextCategorical]_vars

(* ----------------- properties of is_categorical_variable --------------- *)

(* C29: after is_categorical_variable, the variable of every row with a    *)
(* categorical value that is not empty is in one of the two lists and not  *)
(* in the other, in the binary list exactly when the value has two         *)
(* entries; and determine_var_uri called with the name of the row and the  *)
(* two lists gives binary_class_variable or multi_class_variable           *)
(* accordingly.                                                            *)
C29_ListsAndClassAgree ==
    /\ (Called("is_categorical_variable") \/ fn = "determine_var_uri") =>
          \A n \in 1..Len(df) :
              NotEmptyValue(df[n].categorical) =>
                  LET name == normalize_text(df[n].variablename)
                  IN  /\ (name \in binary_categorical) # (name \in multi_class_categorical)
                      /\ (name \in binary_categorical) <=> (Entries(df[n].categorical) = 2)
    /\ Gave("determine_var_uri") =>
          \A n \in 1..Len(df) :
              (df[n].variablename = var_name /\ NotEmptyValue(df[n].categorical)) =>
                  ret[2] = IF Entries(df[n].categorical) = 2
                           THEN binary_class_variable ELSE multi_class_variable

(* the same for dictionaries in which every name is lower-case, without    *)
(* space, and on one row only                                              *)
C29_AgreeOnNormalizedNames ==
    (\A n, m \in 1..Len(df) :
        /\ normalize_text(df[n].variablename) = df[n].variablename
        /\ df[n].variablename = df[m].variablename => n = m) => C29_ListsAndClassAgree

IsPrefix(s, t) == Len(s) <= Len(t) /\ SubSeq(t, 1, Len(s)) = s

\* the run went through the statistics and wrote its files in the order
\* HTML, JSON, Markdown, index, as far as it has come
InOrder ==
    /\ IsPrefix(files, RdflibFiles)
    /\ pc \in {"statistics", "html", "json", "markdown", "index", "browser", "exited"}
    /\ files # <<>> => \E n \in 1..Len(stdout) : stdout[n] = "Ontology statistics"
    /\ pc = "exited" => (files = RdflibFiles /\ exit_status = {0})

(* C30: the rdflib script ends with status 1 and no file written exactly   *)
(* when the ontology file did not parse; a file that parses, with zero     *)
(* triples too, goes on through the statistics and the HTML, JSON,         *)
(* Markdown and index files in that order.                                 *)
C30_ExitIffParseFailed ==
    (fn = "generate_rdflib_docs" /\ pc # "start") =>
        /\ (pc = "exited" /\ exit_status = {1} /\ files = <<>>) <=> ~ontology_file.parses
        /\ ontology_file.parses => InOrder

(* the same for an ontology file that does not parse or gives a triple *)
C30_ExitIffParseFailedOrEmpty ==
    (ontology_file.parses => ontology_file.triples > 0) => C30_ExitIffParseFailed

====
